---------------------------- MODULE Spec2Model ----------------------------
(***************************************************************************)
(* Food-Diary: the daily log screen (index.tsx, here src/unnamed/part_001), *)
(* its entry modal (AddEntryModal.tsx, src/unnamed/part_000) and the        *)
(* statistics screen (src/app/(tabs)/stats.tsx), over one AsyncStorage.     *)
(*                                                                         *)
(* Every await on AsyncStorage is a point where other callbacks may run.    *)
(* A loop of reads is folded into the step that ends it: the reads of one   *)
(* loop see one store.  Instants are kept to the calendar day: two Dates of *)
(* one day compare equal.  Line numbers in comments are those of the source.*)
(***************************************************************************)
EXTENDS Integers, Sequences, FiniteSets, Bags, TLC

VARIABLES
    now,              \* the wall clock (what new Date() returns)
    store,            \* AsyncStorage: key -> stored text
    \* ---- statistics screen (stats.tsx 64-73)
    loading, currentAverage, previousAverage, trend, foodMoodData,
    dailyMoodData, selectedMonth, chartLoading,
    calcs,            \* calculateMoodAverages calls in flight (a bag)
    loads,            \* loadChartDataForMonth calls started by handleMonthChange (a bag)
    lastCalc,         \* history: the calculateMoodAverages call that returned last
    lastChart,        \* history: the loadChartDataForMonth call that returned last
    \* ---- daily log screen (part_001 172-183)
    selectedDate, workoutDone, workoutNote, moodRating, moodNote, foodEntries,
    modalVisible, editingEntry,
    reads,            \* getItem calls of loadDayData in flight (a bag of dates)
    writes,           \* setItem calls of saveDayData in flight (a sequence, in issue order)
    saved,            \* history: date key -> the record saveDayData last stored there
    lastLoad,         \* history: the loadDayData call that returned last
    edits,            \* history: number of user edits so far; it bounds the run and
                      \* stands for the clock Date.now() reads at an edit
    lastSave,         \* history: how the last setItem of saveDayData ended
    failures,         \* history: number of setItem calls the backend has rejected
    modal,            \* AddEntryModal: its name, useCustomTime, hours, minutes, error
    timers            \* setTimeout(updateMoodStats, 100) calls waiting, in the order set:
                      \* of each the setItem call of the render that follows its mood change

statsVars == <<loading, currentAverage, previousAverage, trend, foodMoodData,
               dailyMoodData, selectedMonth, chartLoading, calcs, loads, lastCalc, lastChart>>
logVars   == <<selectedDate, workoutDone, workoutNote, moodRating, moodNote,
               foodEntries, modalVisible, editingEntry, reads, writes, saved, lastLoad,
               edits, lastSave, failures, modal, timers>>
vars      == <<now, store, statsVars, logVars>>

-----------------------------------------------------------------------------
(* Bounds of the model.                                                     *)

MaxDays    == 1     \* days the clock may advance past StartDate
MonthsBack == 1     \* months handleMonthChange('prev') may go back
MaxLoads   == 2     \* loadChartDataForMonth calls of handleMonthChange in flight at once
MaxCalcs   == 1     \* calculateMoodAverages calls in flight at once
MaxEdits   == 2     \* edits and date changes the user makes in the daily log
MaxEntries == 2     \* food entries of one day
MaxShift   == 1     \* days handleDateChange may move away from StartDate
MaxFailures == 1    \* setItem calls the backend rejects

-----------------------------------------------------------------------------
(* JavaScript values.  null / undefined is the empty tuple, a value v that  *)
(* may be absent is <<v>>.                                                  *)

Null == <<>>
Some(v) == <<v>>

(* Dates: [y, m, d].                                                        *)

IsLeap(y) == (y % 4 = 0 /\ y % 100 # 0) \/ y % 400 = 0

\* date-fns getDaysInMonth
DaysInMonth(y, m) ==
    IF m = 2 THEN (IF IsLeap(y) THEN 29 ELSE 28)
    ELSE IF m \in {4, 6, 9, 11} THEN 30 ELSE 31

\* Date comparison (<=, >) is by time value.
DateLE(a, b) ==
    \/ a.y < b.y
    \/ a.y = b.y /\ a.m < b.m
    \/ a.y = b.y /\ a.m = b.m /\ a.d <= b.d

DateGT(a, b) == ~DateLE(a, b)

startOfMonth(date) == [y |-> date.y, m |-> date.m, d |-> 1]

endOfMonth(date) ==
    [y |-> date.y, m |-> date.m, d |-> DaysInMonth(date.y, date.m)]

\* date-fns addDays(date, 1): the next calendar day
addDay(date) ==
    IF date.d < DaysInMonth(date.y, date.m) THEN [date EXCEPT !.d = date.d + 1]
    ELSE IF date.m < 12 THEN [date EXCEPT !.m = date.m + 1, !.d = 1]
    ELSE [date EXCEPT !.y = date.y + 1, !.m = 1, !.d = 1]

\* date-fns subDays(date, 1)
subDay(date) ==
    IF date.d > 1 THEN [date EXCEPT !.d = date.d - 1]
    ELSE IF date.m > 1
         THEN [date EXCEPT !.m = date.m - 1, !.d = DaysInMonth(date.y, date.m - 1)]
         ELSE [date EXCEPT !.y = date.y - 1, !.m = 12, !.d = 31]

\* date-fns addMonths(date, 1): the day of the month is capped at the month's last day
addMonth(date) ==
    LET y2 == IF date.m = 12 THEN date.y + 1 ELSE date.y
        m2 == IF date.m = 12 THEN 1 ELSE date.m + 1
        dim == DaysInMonth(y2, m2)
    IN  [date EXCEPT !.y = y2, !.m = m2, !.d = IF date.d < dim THEN date.d ELSE dim]

\* date-fns subMonths(date, 1)
subMonth(date) ==
    LET y2 == IF date.m = 1 THEN date.y - 1 ELSE date.y
        m2 == IF date.m = 1 THEN 12 ELSE date.m - 1
        dim == DaysInMonth(y2, m2)
    IN  [date EXCEPT !.y = y2, !.m = m2, !.d = IF date.d < dim THEN date.d ELSE dim]

\* months from a to b, by calendar month (format(.., 'yyyy-MM') compared)
MonthIndex(date) == date.y * 12 + date.m

\* eachDayOfInterval({start, end}) / the while loops of calculateMoodAverages:
\* the days from cur while cur <= end1 and cur <= end2, ascending
RECURSIVE DaysWhile(_, _, _)
DaysWhile(cur, end1, end2) ==
    IF DateLE(cur, end1) /\ DateLE(cur, end2)
    THEN <<cur>> \o DaysWhile(addDay(cur), end1, end2)
    ELSE <<>>

\* variant: the interval without its last day
eachDayBeforeEnd(start, end) == DaysWhile(start, subDay(end), subDay(end))

eachDayOfInterval(start, end) == DaysWhile(start, end, end)

\* `dayData_${format(date, 'yyyy-MM-dd')}`
DayKey(date) == <<"dayData_", date.y, date.m, date.d>>

\* key.startsWith('dayData_')
IsDayKey(key) == key[1] = "dayData_"

-----------------------------------------------------------------------------
(* Stored texts.  A text is [text |-> ...]; the text of an object also      *)
(* carries the object, as the function from the keys JSON.stringify wrote   *)
(* to their values.                                                         *)

EmptyText   == [text |-> ""]          \* the empty string: a falsy getItem result
GarbageText == [text |-> "{oops"]     \* JSON.parse throws SyntaxError on it
ReadError   == [text |-> "EIO"]       \* marks a key whose getItem rejects

Fields == {"foodEntries", "workoutDone", "workoutNote", "moodRating", "moodNote"}

\* JSON.stringify of a DayData object: a property whose value is undefined is
\* left out (of the five only moodRating is ever undefined here), every other
\* property is written with its value
JSONstringify(dayData) ==
    [text |-> "object",
     obj  |-> [k \in (IF dayData.moodRating = Null THEN Fields \ {"moodRating"} ELSE Fields) |->
                 IF k = "moodRating" THEN dayData[k][1] ELSE dayData[k]]]

\* does JSON.parse(text) throw
ParseThrows(text) == text.text # "object"

\* the object JSON.parse returns has property k
Has(text, k) == k \in DOMAIN text.obj

\* dayData.moodRating of the object JSON.parse returns: a key that was not
\* written reads as undefined
Rating(text) == IF Has(text, "moodRating") THEN Some(text.obj["moodRating"]) ELSE Null

\* JavaScript truthiness of a rating: undefined and 0 are falsy
Truthy(rating) == rating # Null /\ rating[1] # 0

\* AsyncStorage.getItem(key) on store st: null when nothing is stored
getItem(st, key) == IF key \in DOMAIN st THEN Some(st[key]) ELSE Null

\* One read as all three loops of stats.tsx do it (94-97, 109-112, 197-200):
\* "throw" when getItem rejects or JSON.parse throws, "skip" when `if (data)`
\* is false, else "obj" with the stored text
DayRead(st, key) ==
    LET data == getItem(st, key) IN
    IF data = Null THEN [r |-> "skip"]
    ELSE IF data[1] = ReadError THEN [r |-> "throw"]
    ELSE IF data[1].text = "" THEN [r |-> "skip"]
    ELSE IF ParseThrows(data[1]) THEN [r |-> "throw"]
    ELSE [r |-> "obj", text |-> data[1]]

\* The while loops of calculateMoodAverages (93-103, 108-118) over `days`:
\* the ratings pushed, or a throw that leaves the try block
RECURSIVE MonthMoods(_, _)
MonthMoods(st, days) ==
    IF days = <<>> THEN [ok |-> TRUE, moods |-> <<>>]
    ELSE LET rd == DayRead(st, DayKey(Head(days))) IN
         IF rd.r = "throw" THEN [ok |-> FALSE, moods |-> <<>>]
         ELSE LET rest == MonthMoods(st, Tail(days))
                  rating == IF rd.r = "obj" THEN Rating(rd.text) ELSE Null
              IN  IF ~rest.ok THEN rest
                  ELSE IF Truthy(rating)
                       THEN [ok |-> TRUE, moods |-> <<rating[1]>> \o rest.moods]
                       ELSE rest

\* The for loop of loadChartDataForMonth (196-219): one point per day read
RECURSIVE ChartLoop(_, _)
ChartLoop(st, days) ==
    IF days = <<>> THEN [ok |-> TRUE, data |-> <<>>]
    ELSE LET rd == DayRead(st, DayKey(Head(days))) IN
         IF rd.r = "throw" THEN [ok |-> FALSE, data |-> <<>>]
         ELSE LET rest == ChartLoop(st, Tail(days))
                  rating == IF rd.r = "obj" THEN Rating(rd.text) ELSE Null
                  point == [date  |-> Head(days).d,
                            score |-> IF Truthy(rating) THEN rating[1] ELSE 0]
              IN  IF ~rest.ok THEN rest
                  ELSE [ok |-> TRUE, data |-> <<point>> \o rest.data]

\* loadChartDataForMonth(date), lines 185-219
ChartData(st, date) ==
    ChartLoop(st, eachDayOfInterval(startOfMonth(date), endOfMonth(date)))

RECURSIVE SumSeq(_)
SumSeq(s) == IF s = <<>> THEN 0 ELSE Head(s) + SumSeq(Tail(s))

RECURSIVE Gcd(_, _)
Gcd(a, b) == IF b = 0 THEN a ELSE Gcd(b, a % b)

\* a / b in JavaScript, for integers a >= 0 and b > 0 small enough that two
\* quotients are equal floats exactly when they are equal fractions: the
\* fraction in lowest terms
Div(a, b) == LET g == Gcd(a, b) IN <<a \div g, b \div g>>

\* variant: reads that remove a text that does not parse
AfterReadsDroppingGarbage(st) == [k \in {key \in DOMAIN st : st[key] # GarbageText} |-> st[k]]

\* the store after the getItem and getAllKeys calls of a loop (95, 110, 146,
\* 150, 198): they leave it as it is; stats.tsx makes no other storage call
AfterReads(st) == st

\* lines 121-126: the average of the ratings pushed, or null
Average(moods) == IF Len(moods) > 0 THEN Some(Div(SumSeq(moods), Len(moods))) ELSE Null

\* x > y and x < y on two quotients
Greater(x, y) == x[1] * y[2] > y[1] * x[2]
Less(x, y) == x[1] * y[2] < y[1] * x[2]

\* variant: lines 131-140 with >= at line 133, which leaves no 'same'
NextTrendNoSame(old, currentAvg, previousAvg) ==
    IF currentAvg # Null /\ previousAvg # Null
    THEN (IF ~Less(currentAvg[1], previousAvg[1]) THEN "up" ELSE "down")
    ELSE old

\* lines 131-140: the trend set, given the trend state before
NextTrend(old, currentAvg, previousAvg) ==
    IF currentAvg # Null /\ previousAvg # Null
    THEN (IF Greater(currentAvg[1], previousAvg[1]) THEN "up"
          ELSE IF Less(currentAvg[1], previousAvg[1]) THEN "down"
          ELSE "same")
    ELSE old

\* entry.name.toLowerCase()
toLowerCase(name) ==
    CASE name = "Pizza" -> "pizza"
      [] name = "PIZZA" -> "pizza"
      [] name = "Salad" -> "salad"
      [] OTHER -> name

RECURSIVE AddEntries(_, _, _)

\* variant: a day counts once for each food it names, however often
AddEntriesOncePerDay(map, entries, rating) ==
    IF entries = <<>> THEN map
    ELSE LET foodName == toLowerCase(Head(entries).name)
             rest == SelectSeq(Tail(entries), LAMBDA e : toLowerCase(e.name) # foodName)
             old == IF foodName \in DOMAIN map THEN map[foodName]
                    ELSE [totalScore |-> 0, occurrences |-> 0, averageScore |-> <<0, 1>>]
             tot == old.totalScore + rating
             occ == old.occurrences + 1
             new == [totalScore |-> tot, occurrences |-> occ, averageScore |-> Div(tot, occ)]
             map2 == [n \in DOMAIN map \cup {foodName} |-> IF n = foodName THEN new ELSE map[n]]
         IN  AddEntries(map2, rest, rating)

\* lines 155-168: dayData.foodEntries.forEach on the map built so far
AddEntries(map, entries, rating) ==
    IF entries = <<>> THEN map
    ELSE LET foodName == toLowerCase(Head(entries).name)
             old == IF foodName \in DOMAIN map THEN map[foodName]
                    ELSE [totalScore |-> 0, occurrences |-> 0, averageScore |-> <<0, 1>>]
             tot == old.totalScore + rating
             occ == old.occurrences + 1
             new == [totalScore |-> tot, occurrences |-> occ, averageScore |-> Div(tot, occ)]
             map2 == [n \in DOMAIN map \cup {foodName} |-> IF n = foodName THEN new ELSE map[n]]
         IN  AddEntries(map2, Tail(entries), rating)

\* lines 149-171: the for loop over dayDataKeys; the map, or a throw
RECURSIVE FoodLoop(_, _, _)
FoodLoop(st, keys, map) ==
    IF keys = {} THEN [ok |-> TRUE, map |-> map]
    ELSE LET key == CHOOSE k \in keys : TRUE
             rd == DayRead(st, key)
         IN  IF rd.r = "throw" THEN [ok |-> FALSE, map |-> map]
             ELSE IF rd.r = "obj" /\ Truthy(Rating(rd.text)) /\ Has(rd.text, "foodEntries")
                  THEN FoodLoop(st, keys \ {key},
                                AddEntries(map, rd.text.obj["foodEntries"],
                                           Rating(rd.text)[1]))
                  ELSE FoodLoop(st, keys \ {key}, map)

\* lines 146-147: getAllKeys filtered to the day keys
DayDataKeys(st) == {key \in DOMAIN st : IsDayKey(key)}

\* a store holding ReadError under this key is one whose getAllKeys rejects
KeysError == <<"getAllKeys">>

\* AsyncStorage.getAllKeys() on store st (146)
getAllKeys(st) ==
    IF KeysError \in DOMAIN st /\ st[KeysError] = ReadError
    THEN [ok |-> FALSE, keys |-> {}]
    ELSE [ok |-> TRUE, keys |-> DOMAIN st]

EmptyMap == [n \in {} |-> 0]

-----------------------------------------------------------------------------
(* The clock.                                                               *)

StartDate == [y |-> 2024, m |-> 3, d |-> 31]

\* days from StartDate to date, for dates not before it
RECURSIVE DaysSince(_, _)
DaysSince(from, date) ==
    IF from.y = date.y /\ from.m = date.m /\ from.d = date.d THEN 0
    ELSE 1 + DaysSince(addDay(from), date)

\* midnight passes
TickDay ==
    /\ DaysSince(StartDate, now) < MaxDays
    /\ now' = addDay(now)
    /\ UNCHANGED <<store, statsVars, logVars>>

\* variant: the first while loop without `currentDate <= today`
CurrentDaysOfWholeMonth(today) ==
    DaysWhile(startOfMonth(today), endOfMonth(today), endOfMonth(today))

\* the days of the first while loop (81-82, 93): from the start of today's
\* month while <= its end and <= today
CurrentDays(today) == DaysWhile(startOfMonth(today), endOfMonth(today), today)

\* the days of the second while loop (83-84, 107-108): the whole month before
PreviousDays(today) ==
    LET last == subDay(startOfMonth(today))
    IN  DaysWhile(startOfMonth(last), endOfMonth(last), endOfMonth(last))

-----------------------------------------------------------------------------
(* Store contents the statistics screen is run against.                     *)

Day(m, d) == [y |-> 2024, m |-> m, d |-> d]

Food(id, name, time) == [id |-> id, name |-> name, time |-> time]

\* the text saveDayData stores for a day with this rating and these entries
Rec(rating, entries) ==
    JSONstringify([foodEntries |-> entries, workoutDone |-> FALSE, workoutNote |-> "",
                   moodRating |-> rating, moodNote |-> ""])

NoStore == [k \in {} |-> EmptyText]

\* Pizza on a mood-8 day, Pizza and Salad on a mood-4 day
PizzaStore ==
    (DayKey(Day(3, 1)) :> Rec(Some(8), <<Food(1, "Pizza", 720)>>)) @@
    (DayKey(Day(3, 2)) :> Rec(Some(4), <<Food(2, "Pizza", 780), Food(3, "Salad", 1140)>>))

\* March: 5 rated days of average 7; February: 10 rated days of average 6
TrendStore ==
    [k \in {DayKey(Day(3, d)) : d \in 1..5} \cup {DayKey(Day(2, d)) : d \in 1..10} |->
        IF k[3] = 3 THEN Rec(Some(k[4] + 4), <<>>)
        ELSE Rec(Some(IF k[4] % 2 = 0 THEN 8 ELSE 4), <<>>)]

\* unrated days (rating 0, rating not written), a day after today, case
\* variants of one food, a key that is no day key
MixedStore ==
    (DayKey(Day(3, 30)) :> Rec(Some(0), <<Food(4, "Salad", 600)>>)) @@
    (DayKey(Day(3, 31)) :> Rec(Some(9), <<Food(5, "PIZZA", 600), Food(6, "pizza", 660),
                                          Food(7, "Pizza", 720)>>)) @@
    (DayKey(Day(2, 29)) :> Rec(Null, <<Food(8, "Pizza", 600)>>)) @@
    (DayKey(Day(2, 1))  :> Rec(Some(3), <<Food(9, "Salad", 600)>>)) @@
    (DayKey(Day(4, 2))  :> Rec(Some(10), <<Food(10, "Salad", 600)>>)) @@
    (<<"settings">> :> GarbageText)

\* the same rating in both months
SameStore ==
    (DayKey(Day(3, 15)) :> Rec(Some(5), <<>>)) @@
    (DayKey(Day(2, 15)) :> Rec(Some(5), <<>>)) @@
    (DayKey(Day(3, 16)) :> EmptyText)

\* a text that does not parse among rated days of March
GarbageStore ==
    (DayKey(Day(3, 1)) :> Rec(Some(8), <<Food(1, "Pizza", 720)>>)) @@
    (DayKey(Day(3, 2)) :> GarbageText) @@
    (DayKey(Day(2, 1)) :> Rec(Some(2), <<Food(2, "Salad", 720)>>))

\* a key of February whose read fails
ReadErrorStore ==
    (DayKey(Day(3, 1)) :> Rec(Some(8), <<Food(1, "Pizza", 720)>>)) @@
    (DayKey(Day(2, 10)) :> ReadError) @@
    (DayKey(Day(2, 1)) :> Rec(Some(2), <<Food(2, "Salad", 720)>>))

\* PizzaStore on a backend whose getAllKeys rejects
KeysErrorStore == PizzaStore @@ (KeysError :> ReadError)

StatsStores == {NoStore, PizzaStore, TrendStore, MixedStore, SameStore,
                GarbageStore, ReadErrorStore, KeysErrorStore}

-----------------------------------------------------------------------------
(* The loops of the statistics screen over the stores above, evaluated     *)
(* once.  The steps below look a loop's result up here and evaluate the     *)
(* loop itself for any other store or date.                                 *)

RECURSIVE DaysFrom(_, _)
DaysFrom(date, n) == IF n = 0 THEN {date} ELSE {date} \cup DaysFrom(addDay(date), n - 1)

RECURSIVE MonthsBefore(_, _)
MonthsBefore(date, n) ==
    IF n = 0 THEN {startOfMonth(date)}
    ELSE {startOfMonth(date)} \cup MonthsBefore(subMonth(startOfMonth(date)), n - 1)

Todays == DaysFrom(StartDate, MaxDays)
Months == MonthsBefore(StartDate, MonthsBack) \cup {startOfMonth(date) : date \in Todays}

ChartMemo == [st \in StatsStores |-> [mo \in Months |-> ChartData(st, mo)]]
CurrentMemo == [st \in StatsStores |-> [td \in Todays |-> MonthMoods(st, CurrentDays(td))]]
PreviousMemo == [st \in StatsStores |-> [td \in Todays |-> MonthMoods(st, PreviousDays(td))]]
FoodMemo == [st \in StatsStores |-> FoodLoop(st, DayDataKeys(st), EmptyMap)]

ChartResult(st, date) ==
    IF st \in StatsStores /\ startOfMonth(date) \in Months
    THEN ChartMemo[st][startOfMonth(date)]
    ELSE ChartData(st, date)

CurrentResult(st, today) ==
    IF st \in StatsStores /\ today \in Todays
    THEN CurrentMemo[st][today]
    ELSE MonthMoods(st, CurrentDays(today))

PreviousResult(st, today) ==
    IF st \in StatsStores /\ today \in Todays
    THEN PreviousMemo[st][today]
    ELSE MonthMoods(st, PreviousDays(today))

FoodResult(st, keys) ==
    IF st \in StatsStores /\ keys = DayDataKeys(st)
    THEN FoodMemo[st]
    ELSE FoodLoop(st, keys, EmptyMap)

-----------------------------------------------------------------------------
(* The statistics screen, stats.tsx.                                        *)

\* variant: calculateMoodAverages with JSON.parse and the storage calls
\* outside its try
CatchesButStatistics(operation) ==
    operation \in {"loadDayData", "saveDayData", "loadChartDataForMonth"}

\* the operations whose body is inside a try with a catch that only logs:
\* loadDayData (190/207), saveDayData (213/223), calculateMoodAverages
\* (stats.tsx 78/174) and loadChartDataForMonth (184/222)
Catches(operation) ==
    operation \in {"loadDayData", "saveDayData", "calculateMoodAverages",
                   "loadChartDataForMonth"}

\* how an operation ends in which a storage call or JSON.parse has thrown
Thrown(operation) == IF Catches(operation) THEN "failed" ELSE "uncaught"

NoCalc  == [status |-> "none", today |-> StartDate]
NoChart == [status |-> "none", date |-> startOfMonth(StartDate)]

\* calculateMoodAverages up to its first await (78-91, 183-198): the call as
\* it waits in loadChartDataForMonth(selectedMonth)
NewCalc(month) == [pc |-> "chart", today |-> now, month |-> month, cur |-> <<>>, keys |-> {}]

\* The screen after its first render and focus effect: the useState initial
\* values (64-73) and the first calculateMoodAverages call (246-250) at its
\* first await
StatsInit ==
    /\ currentAverage = Null
    /\ previousAverage = Null
    /\ trend = "null"
    /\ foodMoodData = EmptyMap
    /\ dailyMoodData = <<>>
    /\ selectedMonth = now
    /\ loading = TRUE
    /\ chartLoading = TRUE
    /\ calcs = SetToBag({NewCalc(now)})
    /\ loads = EmptyBag
    /\ lastCalc = NoCalc
    /\ lastChart = NoChart

\* useFocusEffect (246-250): the user leaves the screen and comes back, and
\* the effect runs again; calls in flight go on meanwhile
Focus ==
    /\ BagCardinality(calcs) < MaxCalcs
    /\ loading' = TRUE
    /\ chartLoading' = TRUE
    /\ calcs' = calcs (+) SetToBag({NewCalc(selectedMonth)})
    /\ UNCHANGED <<currentAverage, previousAverage, trend, foodMoodData, dailyMoodData,
                   selectedMonth, loads, lastCalc, lastChart>>
    /\ UNCHANGED <<now, store, logVars>>

\* variant: the test of line 236 without the comparison with today
RejectsNever(direction, newMonth) == FALSE

\* line 236: direction === 'next' && newMonth > new Date()
RejectsFuture(direction, newMonth) == direction = "next" /\ DateGT(newMonth, now)

\* handleMonthChange(direction), 229-244.  An accepted request starts
\* loadChartDataForMonth(newMonth) and changes selectedMonth, which renews
\* calculateMoodAverages (line 179) and so runs the focus effect again (246-250).
handleMonthChange(direction) ==
    LET newMonth == IF direction = "prev" THEN subMonth(selectedMonth)
                    ELSE addMonth(selectedMonth)
    IN  /\ IF RejectsFuture(direction, newMonth)
           THEN UNCHANGED statsVars
           ELSE /\ MonthIndex(StartDate) - MonthIndex(newMonth) <= MonthsBack
                /\ BagCardinality(loads) < MaxLoads
                /\ BagCardinality(calcs) < MaxCalcs
                /\ selectedMonth' = newMonth
                /\ loads' = loads (+) SetToBag({newMonth})
                /\ chartLoading' = TRUE
                /\ loading' = TRUE
                /\ calcs' = calcs (+) SetToBag({NewCalc(newMonth)})
                /\ UNCHANGED <<currentAverage, previousAverage, trend, foodMoodData,
                               dailyMoodData, lastCalc, lastChart>>
        /\ UNCHANGED <<now, store, logVars>>

\* loadChartDataForMonth(date) from its first await to its end (196-226)
ChartDone(date) ==
    LET res == ChartResult(store, date)
    IN  /\ dailyMoodData' = IF res.ok THEN res.data ELSE dailyMoodData
        /\ chartLoading' = FALSE
        /\ lastChart' = [status |-> IF res.ok THEN "ok" ELSE Thrown("loadChartDataForMonth"),
                         date |-> startOfMonth(date)]

\* a load started by handleMonthChange returns
LoadReturns ==
    \E date \in BagToSet(loads) :
        /\ ChartDone(date)
        /\ loads' = loads (-) SetToBag({date})
        /\ UNCHANGED <<loading, currentAverage, previousAverage, trend,
                       foodMoodData, selectedMonth, calcs, lastCalc>>
        /\ store' = AfterReads(store)
        /\ UNCHANGED <<now, logVars>>

\* variant: the catch of calculateMoodAverages without its finally
CalcThrowsNoFinally(c) ==
    /\ loading' = loading
    /\ calcs' = calcs (-) SetToBag({c})
    /\ lastCalc' = [status |-> Thrown("calculateMoodAverages"), today |-> c.today]

\* the catch and finally of calculateMoodAverages (174-178)
CalcThrows(c) ==
    /\ loading' = FALSE
    /\ calcs' = calcs (-) SetToBag({c})
    /\ lastCalc' = [status |-> Thrown("calculateMoodAverages"), today |-> c.today]

\* line 91 returns: the load awaited by calculateMoodAverages has ended, the
\* first read of the current month is under way (the call does not read
\* selectedMonth again: its copy is dropped)
CalcChart ==
    \E c \in BagToSet(calcs) :
        /\ c.pc = "chart"
        /\ ChartDone(c.month)
        /\ calcs' = (calcs (-) SetToBag({c})) (+) SetToBag({[c EXCEPT !.pc = "current", !.month = c.today]})
        /\ UNCHANGED <<loading, currentAverage, previousAverage, trend,
                       foodMoodData, selectedMonth, loads, lastCalc>>
        /\ store' = AfterReads(store)
        /\ UNCHANGED <<now, logVars>>

\* lines 93-103: the current month has been read
CalcCurrent ==
    \E c \in BagToSet(calcs) :
        /\ c.pc = "current"
        /\ LET res == CurrentResult(store, c.today)
           IN  IF res.ok
               THEN /\ calcs' = (calcs (-) SetToBag({c})) (+)
                                SetToBag({[c EXCEPT !.pc = "previous", !.cur = res.moods]})
                    /\ UNCHANGED <<loading, lastCalc>>
               ELSE CalcThrows(c)
        /\ UNCHANGED <<currentAverage, previousAverage, trend, foodMoodData,
                       dailyMoodData, selectedMonth, chartLoading, loads, lastChart>>
        /\ store' = AfterReads(store)
        /\ UNCHANGED <<now, logVars>>

\* lines 105-146: the previous month has been read, the averages and the
\* trend are set, getAllKeys is under way
CalcPrevious ==
    \E c \in BagToSet(calcs) :
        /\ c.pc = "previous"
        /\ LET res == PreviousResult(store, c.today)
               currentAvg == Average(c.cur)
               previousAvg == Average(res.moods)
           IN  IF res.ok
               THEN /\ currentAverage' = currentAvg
                    /\ previousAverage' = previousAvg
                    /\ trend' = NextTrend(trend, currentAvg, previousAvg)
                    /\ calcs' = (calcs (-) SetToBag({c})) (+)
                                SetToBag({[c EXCEPT !.pc = "keys"]})
                    /\ UNCHANGED <<loading, lastCalc>>
               ELSE /\ CalcThrows(c)
                    /\ UNCHANGED <<currentAverage, previousAverage, trend>>
        /\ UNCHANGED <<foodMoodData, dailyMoodData, selectedMonth, chartLoading,
                       loads, lastChart>>
        /\ store' = AfterReads(store)
        /\ UNCHANGED <<now, logVars>>

\* lines 173-178 after a scan that did not throw
CalcEnds(c, map) ==
    /\ foodMoodData' = map
    /\ loading' = FALSE
    /\ calcs' = calcs (-) SetToBag({c})
    /\ lastCalc' = [status |-> "ok", today |-> c.today]

\* lines 146-150: getAllKeys has returned; with no day key the loop is empty
CalcKeys ==
    \E c \in BagToSet(calcs) :
        /\ c.pc = "keys"
        /\ LET dayDataKeys == DayDataKeys(store)
           IN  IF ~getAllKeys(store).ok
               THEN CalcThrows(c) /\ UNCHANGED foodMoodData
               ELSE IF dayDataKeys = {}
               THEN CalcEnds(c, EmptyMap)
               ELSE /\ calcs' = (calcs (-) SetToBag({c})) (+)
                                SetToBag({[c EXCEPT !.pc = "foods", !.keys = dayDataKeys]})
                    /\ UNCHANGED <<loading, foodMoodData, lastCalc>>
        /\ UNCHANGED <<currentAverage, previousAverage, trend, dailyMoodData,
                       selectedMonth, chartLoading, loads, lastChart>>
        /\ store' = AfterReads(store)
        /\ UNCHANGED <<now, logVars>>

\* lines 149-178: the day keys have been read
CalcFoods ==
    \E c \in BagToSet(calcs) :
        /\ c.pc = "foods"
        /\ LET res == FoodResult(store, c.keys)
           IN  IF res.ok
               THEN CalcEnds(c, res.map)
               ELSE CalcThrows(c) /\ UNCHANGED foodMoodData
        /\ UNCHANGED <<currentAverage, previousAverage, trend, dailyMoodData,
                       selectedMonth, chartLoading, loads, lastChart>>
        /\ store' = AfterReads(store)
        /\ UNCHANGED <<now, logVars>>

-----------------------------------------------------------------------------
(* The daily log screen, part_001.                                          *)

\* lastLoad: how the last loadDayData that returned ended, for which date, and
\* whether saveDayData had stored the text it read
NoLoad == [status |-> "none", date |-> StartDate, saved |-> FALSE]

NoSave == [status |-> "none", key |-> DayKey(StartDate), text |-> EmptyText]

\* the record the useState calls (173-181) and the else branch of
\* loadDayData (201-205) set
DefaultRecord ==
    [foodEntries |-> <<>>, workoutDone |-> FALSE, workoutNote |-> "",
     moodRating |-> Some(5), moodNote |-> ""]

\* the five state variables saveDayData puts into dayData (215-221)
Memory ==
    [foodEntries |-> foodEntries, workoutDone |-> workoutDone, workoutNote |-> workoutNote,
     moodRating |-> moodRating, moodNote |-> moodNote]

\* getStorageKey (185-187)
getStorageKey(date) == DayKey(date)

\* saveDayData up to its await (213-222): the setItem call it issues for the
\* selected date `date` and the state `mem` of the render it belongs to
saveDayData(date, mem) ==
    [key |-> getStorageKey(date), text |-> JSONstringify(mem), rec |-> mem]

\* loadDayData with the mood note of the stored record not taken over
LoadedRecordNoMoodNote(text) ==
    [foodEntries |-> text.obj["foodEntries"], workoutDone |-> text.obj["workoutDone"],
     workoutNote |-> text.obj["workoutNote"], moodRating |-> Rating(text),
     moodNote |-> ""]

\* the state loadDayData sets from the text read (194-199)
LoadedRecord(text) ==
    [foodEntries |-> text.obj["foodEntries"], workoutDone |-> text.obj["workoutDone"],
     workoutNote |-> text.obj["workoutNote"], moodRating |-> Rating(text),
     moodNote |-> text.obj["moodNote"]]

\* the useState values of AddEntryModal (part_000 40-44).  The fields of a
\* modal that is not visible are read by nothing and are set again by the
\* effect when it is shown (46-63): they are kept at these values.
ModalClosed ==
    [name |-> "", useCustomTime |-> FALSE, hours |-> <<>>, minutes |-> <<>>, error |-> ""]

\* The screen after its first render and its two effects (228-234): the
\* useState values, loadDayData(selectedDate) waiting for getItem and the
\* setItem of saveDayData issued
LogInit ==
    /\ selectedDate = now
    /\ workoutDone = DefaultRecord.workoutDone
    /\ workoutNote = DefaultRecord.workoutNote
    /\ moodRating = DefaultRecord.moodRating
    /\ moodNote = DefaultRecord.moodNote
    /\ foodEntries = DefaultRecord.foodEntries
    /\ modalVisible = FALSE
    /\ editingEntry = Null
    /\ reads = SetToBag({now})
    /\ writes = <<saveDayData(now, DefaultRecord)>>
    /\ saved = [k \in {} |-> DefaultRecord]
    /\ lastLoad = NoLoad
    /\ edits = 0
    /\ lastSave = NoSave
    /\ failures = 0
    /\ modal = ModalClosed
    /\ timers = <<>>

\* the state variables of the record become `mem`
SetMemory(mem) ==
    /\ foodEntries' = mem.foodEntries
    /\ workoutDone' = mem.workoutDone
    /\ workoutNote' = mem.workoutNote
    /\ moodRating' = mem.moodRating
    /\ moodNote' = mem.moodNote

\* variant: a render after which the save effect does not run
NoSaveEffect(mem) == writes' = writes

\* the save effect (232-234) after a render that changed the record to `mem`
SaveEffect(mem) == writes' = Append(writes, saveDayData(selectedDate, mem))

\* a setter of the record called by a handler: the record becomes `mem`,
\* and the save effect runs after the render
SetRecord(mem) ==
    /\ ~modalVisible
    /\ edits < MaxEdits
    /\ edits' = edits + 1
    /\ SetMemory(mem)
    /\ SaveEffect(mem)
    /\ UNCHANGED <<selectedDate, modalVisible, editingEntry, reads, saved, lastLoad, lastSave, failures>>
    /\ UNCHANGED <<now, store, statsVars, modal>>

\* a user edit that does nothing else
UserEdit(mem) == SetRecord(mem) /\ UNCHANGED timers

\* the days up to n days before `date`
RECURSIVE DaysBefore(_, _)
DaysBefore(date, n) == IF n = 0 THEN {date} ELSE {date} \cup DaysBefore(subDay(date), n - 1)

\* handleDateChange(days), 236-238, days = 1 or -1: selectedDate changes, so
\* the load effect runs (228-230) and, saveDayData being renewed (226), the
\* save effect too (232-234), with the record in memory
handleDateChange(days) ==
    LET date == IF days > 0 THEN addDay(selectedDate) ELSE subDay(selectedDate)
    IN  /\ ~modalVisible
        /\ edits < MaxEdits
        /\ date \in DaysFrom(StartDate, MaxShift) \cup DaysBefore(StartDate, MaxShift)
        /\ edits' = edits + 1
        /\ selectedDate' = date
        /\ reads' = reads (+) SetToBag({date})
        /\ writes' = Append(writes, saveDayData(date, Memory))
        /\ UNCHANGED <<workoutDone, workoutNote, moodRating, moodNote, foodEntries,
                       modalVisible, editingEntry, saved, lastLoad, lastSave, failures>>
        /\ UNCHANGED <<now, store, statsVars, modal, timers>>

DateNext == handleDateChange(1)
DatePrev == handleDateChange(-1)

\* loadDayData(date) from its await to its end (192-209).  setFoodEntries
\* always gets a new array, so a load that does not throw is followed by a
\* render and the save effect.
loadDayDataReturns(date) ==
    LET data == getItem(store, getStorageKey(date))
        throws == data # Null /\ (data[1] = ReadError
                                  \/ (data[1].text # "" /\ ParseThrows(data[1])))
        found == data # Null /\ data[1].text # ""
        mem == IF found THEN LoadedRecord(data[1]) ELSE DefaultRecord
        wasSaved == getStorageKey(date) \in DOMAIN saved
    IN  /\ reads' = reads (-) SetToBag({date})
        /\ IF throws
           THEN /\ lastLoad' = [status |-> Thrown("loadDayData"), date |-> date, saved |-> wasSaved]
                /\ UNCHANGED <<workoutDone, workoutNote, moodRating, moodNote, foodEntries,
                               writes>>
           ELSE /\ lastLoad' = [status |-> IF found THEN "found" ELSE "absent", date |-> date,
                             saved |-> wasSaved]
                /\ SetMemory(mem)
                /\ SaveEffect(mem)
        /\ UNCHANGED <<selectedDate, modalVisible, editingEntry, saved, edits, lastSave,
                       failures>>
        /\ UNCHANGED <<now, store, statsVars, modal, timers>>

LoadDayReturns == \E date \in BagToSet(reads) : loadDayDataReturns(date)

\* variant: a setItem that adds to the text a key already holds, which
\* leaves a text that does not parse
setItemAppending(st, key, text) ==
    [k \in DOMAIN st \cup {key} |->
        IF k # key THEN st[k] ELSE IF key \in DOMAIN st THEN GarbageText ELSE text]

\* variant: a setItem that drops every other key
setItemAlone(st, key, text) == [k \in {key} |-> text]

\* AsyncStorage.setItem(key, text) on store st: the text under the key is
\* replaced, or the key added
setItem(st, key, text) ==
    [k \in DOMAIN st \cup {key} |-> IF k = key THEN text ELSE st[k]]

\* the setItem call issued first returns (222): the text is stored.
\* lastSave tells a save that stores what the last, rejected, save tried to
\* store ("retried") and one that stores the text the key holds ("again");
\* it keeps the key and the text of a rejected save only.
SetItemReturns ==
    /\ writes # <<>>
    /\ LET w == Head(writes)
       IN  /\ store' = setItem(store, w.key, w.text)
           /\ saved' = [k \in DOMAIN saved \cup {w.key} |-> IF k = w.key THEN w.rec ELSE saved[k]]
           /\ lastSave' =
                  [status |-> IF lastSave = [status |-> "failed", key |-> w.key, text |-> w.text]
                              THEN "retried"
                              ELSE IF getItem(store, w.key) = Some(w.text) THEN "again"
                              ELSE "stored",
                   key |-> NoSave.key, text |-> NoSave.text]
    /\ writes' = Tail(writes)
    /\ UNCHANGED <<selectedDate, workoutDone, workoutNote, moodRating, moodNote, foodEntries,
                   modalVisible, editingEntry, reads, lastLoad, edits, failures>>
    /\ UNCHANGED <<now, statsVars, modal, timers>>

\* the setItem call issued first is rejected: the catch of saveDayData
\* (223-225) logs the error; nothing is stored and nothing saves again
SetItemFails ==
    /\ writes # <<>>
    /\ failures < MaxFailures
    /\ failures' = failures + 1
    /\ LET w == Head(writes)
       IN  lastSave' = [status |-> Thrown("saveDayData"), key |-> w.key, text |-> w.text]
    /\ writes' = Tail(writes)
    /\ UNCHANGED <<selectedDate, workoutDone, workoutNote, moodRating, moodNote, foodEntries,
                   modalVisible, editingEntry, reads, saved, lastLoad, edits>>
    /\ UNCHANGED <<now, store, statsVars, modal, timers>>

\* handleDeleteFood(id), 240-242, from the Delete button of an entry shown
handleDeleteFood ==
    \E i \in 1..Len(foodEntries) :
        UserEdit([Memory EXCEPT !.foodEntries =
                     SelectSeq(foodEntries, LAMBDA entry : entry.id # foodEntries[i].id)])

\* a timestamp in minutes: the minute `minute` of the day `date`
TimeOf(date, minute) == ((date.y * 12 + date.m) * 31 + date.d) * (24 * 60) + minute

\* getHours() and getMinutes() of a timestamp
getHours(time) == (time % (24 * 60)) \div 60
getMinutes(time) == time % 60

\* Texts of the hour and minute fields are sequences of characters.
DigitChars == <<"0", "1", "2", "3", "4", "5", "6", "7", "8", "9">>

IsDigit(ch) == \E i \in 1..Len(DigitChars) : DigitChars[i] = ch

DigitValue(ch) == (CHOOSE i \in 1..Len(DigitChars) : DigitChars[i] = ch) - 1

\* n.toString().padStart(2, '0') for n in 0..99
padStart(n) == <<DigitChars[(n \div 10) + 1], DigitChars[(n % 10) + 1]>>

\* text.replace(/[^0-9]/g, '') (part_000 90)
DigitsOnly(text) == SelectSeq(text, IsDigit)

\* parseInt(text, 10): the number its leading digits write, or NaN (Null)
RECURSIVE LeadingDigits(_)
LeadingDigits(text) ==
    IF text = <<>> \/ ~IsDigit(Head(text)) THEN <<>>
    ELSE <<Head(text)>> \o LeadingDigits(Tail(text))

RECURSIVE DecimalValue(_)
DecimalValue(digits) ==
    IF digits = <<>> THEN 0
    ELSE DecimalValue(SubSeq(digits, 1, Len(digits) - 1)) * 10 + DigitValue(digits[Len(digits)])

parseInt(text) ==
    IF LeadingDigits(text) = <<>> THEN Null ELSE Some(DecimalValue(LeadingDigits(text)))

\* a trim that leaves white space in place
trimNothing(name) == name

\* name.trim(): of the names typed only " " has white space
trim(name) == IF name = " " THEN "" ELSE name

\* the effect of AddEntryModal when it becomes visible (46-63), with the
\* entry to edit or, without one, the time of day new Date() reads
ModalShown(initialEntry, clock) ==
    IF initialEntry # Null
    THEN [name |-> initialEntry[1].name, useCustomTime |-> TRUE,
          hours |-> padStart(getHours(initialEntry[1].time)),
          minutes |-> padStart(getMinutes(initialEntry[1].time)), error |-> ""]
    ELSE [name |-> "", useCustomTime |-> FALSE, hours |-> padStart(clock \div 60),
          minutes |-> padStart(clock % 60), error |-> ""]

FoodNameChoices == {"Pizza", "Salad"}
MinuteChoices == {600, 900}

\* the + button (327): the modal opens to add
OpenAdd ==
    /\ ~modalVisible
    /\ modalVisible' = TRUE
    /\ \E clock \in MinuteChoices : modal' = ModalShown(Null, clock)
    /\ UNCHANGED <<selectedDate, workoutDone, workoutNote, moodRating, moodNote, foodEntries,
                   editingEntry, reads, writes, saved, lastLoad, edits, lastSave, failures>>
    /\ UNCHANGED <<now, store, statsVars, timers>>

\* handleEditFood(entry), 244-247, from the Edit button of an entry shown
handleEditFood ==
    \E i \in 1..Len(foodEntries) :
        /\ ~modalVisible
        /\ editingEntry' = Some(foodEntries[i])
        /\ modalVisible' = TRUE
        /\ modal' = ModalShown(Some(foodEntries[i]), 0)
        /\ UNCHANGED <<selectedDate, workoutDone, workoutNote, moodRating, moodNote,
                       foodEntries, reads, writes, saved, lastLoad, edits, lastSave, failures>>
        /\ UNCHANGED <<now, store, statsVars, timers>>

\* handleCloseModal, 274-277
handleCloseModal ==
    /\ modalVisible
    /\ modalVisible' = FALSE
    /\ editingEntry' = Null
    /\ modal' = ModalClosed
    /\ UNCHANGED <<selectedDate, workoutDone, workoutNote, moodRating, moodNote, foodEntries,
                   reads, writes, saved, lastLoad, edits, lastSave, failures>>
    /\ UNCHANGED <<now, store, statsVars, timers>>

\* [...].sort((a, b) => a.time - b.time): a stable sort by time
RECURSIVE SortByTime(_)
SortByTime(entries) ==
    IF entries = <<>> THEN <<>>
    ELSE LET sorted == SortByTime(SubSeq(entries, 1, Len(entries) - 1))
             last == entries[Len(entries)]
             before == SelectSeq(sorted, LAMBDA e : e.time <= last.time)
             after == SelectSeq(sorted, LAMBDA e : e.time > last.time)
         IN  before \o <<last>> \o after

\* handleSaveEntry with the id of a new entry taken from its time instead of
\* Date.now()
SavedEntriesIdFromTime(name, minute) ==
    LET adjustedTime == TimeOf(selectedDate, minute)
    IN  IF editingEntry # Null
        THEN [i \in 1..Len(foodEntries) |->
                 IF foodEntries[i].id = editingEntry[1].id
                 THEN [foodEntries[i] EXCEPT !.name = name, !.time = adjustedTime]
                 ELSE foodEntries[i]]
        ELSE SortByTime(Append(foodEntries,
                               [id |-> adjustedTime, name |-> name, time |-> adjustedTime]))

\* handleSaveEntry(entry), 249-272: the entries after it, for the name and
\* the hour and minute the modal passed.  Date.now() (266) is later at every
\* user action: the count of actions stands for it.
SavedEntries(name, minute) ==
    LET adjustedTime == TimeOf(selectedDate, minute)
    IN  IF editingEntry # Null
        THEN [i \in 1..Len(foodEntries) |->
                 IF foodEntries[i].id = editingEntry[1].id
                 THEN [foodEntries[i] EXCEPT !.name = name, !.time = adjustedTime]
                 ELSE foodEntries[i]]
        ELSE SortByTime(Append(foodEntries,
                               [id |-> edits + 1, name |-> name, time |-> adjustedTime]))

\* onSave({name, time}) then onClose() (part_000 85-86): handleSaveEntry
\* (249-272) with the name and the time of day, then handleCloseModal
handleSaveEntry(name, minute) ==
    /\ modalVisible
    /\ edits < MaxEdits
    /\ editingEntry # Null \/ Len(foodEntries) < MaxEntries
    /\ edits' = edits + 1
    /\ foodEntries' = SavedEntries(name, minute)
    /\ modalVisible' = FALSE
    /\ editingEntry' = Null
    /\ modal' = ModalClosed
    /\ SaveEffect([Memory EXCEPT !.foodEntries = SavedEntries(name, minute)])
    /\ UNCHANGED <<selectedDate, workoutDone, workoutNote, moodRating, moodNote,
                   reads, saved, lastLoad, lastSave, failures>>
    /\ UNCHANGED <<now, store, statsVars, timers>>

\* the Save button of the modal with a valid name and time: the user has
\* typed them and handleSave passes them on (part_000 65-87)
ModalSave ==
    \E name \in FoodNameChoices, minute \in MinuteChoices : handleSaveEntry(name, minute)

\* the frame of a step inside the modal: the daily log is left alone
ModalOnly ==
    /\ UNCHANGED <<selectedDate, workoutDone, workoutNote, moodRating, moodNote, foodEntries,
                   modalVisible, editingEntry, reads, writes, saved, lastLoad, edits,
                   lastSave, failures>>
    /\ UNCHANGED <<now, store, statsVars, timers>>

\* names the user types into the name field
TypedNames == {" ", "Pizza"}

\* onChangeText of the name field (part_000 119-122)
setName ==
    \E text \in TypedNames :
        /\ modalVisible
        /\ modal' = [modal EXCEPT !.name = text, !.error = ""]
        /\ ModalOnly

\* the custom time toggle (133)
ToggleCustomTime ==
    /\ modalVisible
    /\ modal' = [modal EXCEPT !.useCustomTime = ~modal.useCustomTime]
    /\ ModalOnly

\* value === '' || (parseInt(value) >= 0 && parseInt(value) <= max) (92, 96)
InRange(value, max) == value = <<>> \/ (parseInt(value)[1] >= 0 /\ parseInt(value)[1] <= max)

\* handleTimeChange (89-100): the field takes the digits of the text when
\* they are none or a number in range, and keeps its text otherwise
handleTimeChange(text, isHours) ==
    LET value == DigitsOnly(text)
    IN  /\ modalVisible
        /\ modal.useCustomTime
        /\ modal' = IF isHours
                     THEN IF InRange(value, 23) THEN [modal EXCEPT !.hours = value] ELSE modal
                     ELSE IF InRange(value, 59) THEN [modal EXCEPT !.minutes = value] ELSE modal
        /\ ModalOnly

\* texts the hour and minute fields are given (maxLength 2)
HourTexts == {<<>>, <<"2", "4">>, <<"7", "x">>}
MinuteTexts == {<<"5">>, <<"6", "0">>}

TypeHours == \E text \in HourTexts : handleTimeChange(text, TRUE)

TypeMinutes == \E text \in MinuteTexts : handleTimeChange(text, FALSE)

\* isNaN(n) || n < 0 || n > max (76-77)
BadNumber(n, max) == n = Null \/ n[1] < 0 \/ n[1] > max

\* the error handleSave sets (66-80), or '' when it goes on to save
Rejected(m) ==
    IF trim(m.name) = "" THEN "Please enter a food name"
    ELSE IF m.useCustomTime
            /\ (BadNumber(parseInt(m.hours), 23) \/ BadNumber(parseInt(m.minutes), 59))
         THEN "Please enter valid time"
         ELSE ""

\* handleSave (65-87): the Save button of the modal
handleSave ==
    /\ modalVisible
    /\ IF Rejected(modal) # ""
       THEN /\ modal' = [modal EXCEPT !.error = Rejected(modal)]
            /\ ModalOnly
       ELSE \E clock \in MinuteChoices :
               handleSaveEntry(modal.name,
                               IF modal.useCustomTime
                               THEN parseInt(modal.hours)[1] * 60 + parseInt(modal.minutes)[1]
                               ELSE clock)

\* the workout checkbox (347)
ToggleWorkout == UserEdit([Memory EXCEPT !.workoutDone = ~workoutDone])

\* the workout note, shown when workoutDone (357-362)
SetWorkoutNote ==
    /\ workoutDone
    /\ workoutNote # "run"
    /\ UserEdit([Memory EXCEPT !.workoutNote = "run"])

\* the mood note (375-381)
SetMoodNote ==
    /\ moodNote # "fine"
    /\ UserEdit([Memory EXCEPT !.moodNote = "fine"])

\* the ratings MoodSelector offers, MOOD_OPTIONS (110-112): 1..10, of which
\* the ends are tried
MoodChoices == {1, 10}

\* handleMoodChange(newMoodRating), 284-287, with a rating that is not the
\* one shown
handleMoodChange ==
    \E rating \in MoodChoices :
        /\ moodRating # Some(rating)
        /\ SetRecord([Memory EXCEPT !.moodRating = Some(rating)])
        /\ timers' = Append(timers, saveDayData(selectedDate,
                                                [Memory EXCEPT !.moodRating = Some(rating)]))

\* updateMoodStats (279-282) when its timer fires: router.push('/stats') and
\* router.back() give the statistics screen the focus for a moment, and its
\* focus effect starts calculateMoodAverages (stats.tsx 246-250).  The call
\* keeps, as `after`, the setItem call of the mood change it follows.
updateMoodStats ==
    /\ timers # <<>>
    /\ BagCardinality(calcs) < MaxCalcs
    /\ timers' = Tail(timers)
    /\ loading' = TRUE
    /\ chartLoading' = TRUE
    /\ calcs' = calcs (+) SetToBag({NewCalc(selectedMonth) @@ [after |-> Head(timers)]})
    /\ UNCHANGED <<currentAverage, previousAverage, trend, foodMoodData, dailyMoodData,
                   selectedMonth, loads, lastCalc, lastChart>>
    /\ UNCHANGED <<selectedDate, workoutDone, workoutNote, moodRating, moodNote, foodEntries,
                   modalVisible, editingEntry, reads, writes, saved, lastLoad, edits,
                   lastSave, failures, modal>>
    /\ UNCHANGED <<now, store>>

\* Stores the daily log is opened on.  Stored entries were made before the
\* session: their ids are below every Date.now() of it.
DiaryStore ==
    DayKey(StartDate) :>
        JSONstringify([foodEntries |-> <<[id |-> -2, name |-> "Pizza", time |-> TimeOf(StartDate, 720)],
                                         [id |-> -1, name |-> "Salad", time |-> TimeOf(StartDate, 780)]>>,
                       workoutDone |-> TRUE, workoutNote |-> "swim",
                       moodRating |-> Some(7), moodNote |-> "good"])

\* a rating outside 1..10 under today's key, a text that does not parse
\* under yesterday's, tomorrow's key unreadable
OddStore ==
    (DayKey(StartDate) :> Rec(Some(11), <<>>)) @@
    (DayKey(subDay(StartDate)) :> GarbageText) @@
    (DayKey(addDay(StartDate)) :> ReadError)

\* a record without a rating under today's key
UnratedStore == DayKey(StartDate) :> Rec(Null, <<>>)

LogStores == {NoStore, DiaryStore, OddStore, UnratedStore}

InitLog ==
    /\ now = StartDate
    /\ store \in LogStores
    /\ LogInit
    /\ StatsInit

NextLog ==
    \/ DateNext
    \/ DatePrev
    \/ LoadDayReturns
    \/ SetItemReturns
    \/ handleDeleteFood
    \/ OpenAdd
    \/ handleEditFood
    \/ handleCloseModal
    \/ ModalSave
    \/ ToggleWorkout
    \/ SetWorkoutNote
    \/ SetMoodNote
    \/ handleMoodChange

SpecLog == InitLog /\ [][NextLog]_vars

\* The daily log with the modal's fields filled in key by key.
\* one entry under today's key
LunchStore ==
    DayKey(StartDate) :>
        JSONstringify([foodEntries |-> <<[id |-> -1, name |-> "Salad", time |-> TimeOf(StartDate, 780)]>>,
                       workoutDone |-> FALSE, workoutNote |-> "",
                       moodRating |-> Some(5), moodNote |-> ""])

ModalStores == {LunchStore}

InitModal ==
    /\ now = StartDate
    /\ store \in ModalStores
    /\ LogInit
    /\ StatsInit

NextModal ==
    \/ LoadDayReturns
    \/ SetItemReturns
    \/ OpenAdd
    \/ handleEditFood
    \/ handleCloseModal
    \/ setName
    \/ ToggleCustomTime
    \/ TypeHours
    \/ TypeMinutes
    \/ handleSave

SpecModal == InitModal /\ [][NextModal]_vars

\* The daily log with storage calls that return: a getItem or setItem call
\* in flight is not left waiting for ever
SpecLogFair == SpecLog /\ WF_vars(LoadDayReturns) /\ WF_vars(SetItemReturns)

\* The daily log on a backend that rejects up to MaxFailures setItem calls
FaultStores == {NoStore, OddStore}

InitFaults ==
    /\ now = StartDate
    /\ store \in FaultStores
    /\ LogInit
    /\ StatsInit

NextFaults ==
    \/ NextLog
    \/ SetItemFails

SpecFaults == InitFaults /\ [][NextFaults]_vars

-----------------------------------------------------------------------------
(* The statistics screen over a store nothing else writes.                  *)

InitStats ==
    /\ now = StartDate
    /\ store \in StatsStores
    /\ StatsInit
    /\ LogInit

MonthPrev == handleMonthChange("prev")
MonthNext == handleMonthChange("next")

NextStats ==
    \/ TickDay
    \/ Focus
    \/ MonthPrev
    \/ MonthNext
    \/ LoadReturns
    \/ CalcChart
    \/ CalcCurrent
    \/ CalcPrevious
    \/ CalcKeys
    \/ CalcFoods

SpecStats == InitStats /\ [][NextStats]_vars

\* Every storage call returns, so every call in flight goes on to its next
\* await or to its end; the user and the clock are under no obligation.
SpecStatsFair ==
    /\ SpecStats
    /\ WF_vars(LoadReturns)
    /\ WF_vars(CalcChart)
    /\ WF_vars(CalcCurrent)
    /\ WF_vars(CalcPrevious)
    /\ WF_vars(CalcKeys)
    /\ WF_vars(CalcFoods)

\* The daily log with the mood picker and the statistics its timer starts.
MoodStores == {NoStore, DiaryStore}

InitMood ==
    /\ now = StartDate
    /\ store \in MoodStores
    /\ LogInit
    /\ StatsInit

NextMood ==
    \/ LoadDayReturns
    \/ SetItemReturns
    \/ handleMoodChange
    \/ updateMoodStats
    \/ CalcChart
    \/ CalcCurrent
    \/ CalcPrevious
    \/ CalcKeys
    \/ CalcFoods

SpecMood == InitMood /\ [][NextMood]_vars

\* Both screens on a faulty backend: the statistics screen, and of the daily
\* log its first load and the saves that follow, over stores with a text that
\* does not parse, a key that cannot be read, a getAllKeys that rejects and a
\* setItem that may reject.
BrokenDayStore == DayKey(StartDate) :> GarbageText

ErrorStores == {GarbageStore, ReadErrorStore, KeysErrorStore, BrokenDayStore}

InitErrors ==
    /\ now = StartDate
    /\ store \in ErrorStores
    /\ StatsInit
    /\ LogInit

NextErrors ==
    \/ NextStats
    \/ LoadDayReturns
    \/ SetItemReturns
    \/ SetItemFails

SpecErrors == InitErrors /\ [][NextErrors]_vars

-----------------------------------------------------------------------------
(* What the statistics screen is to show, stated from the store.            *)

\* the rating stored for a day: 0 when nothing is stored, the text is empty
\* or no object, or the rating is unset
StoredScore(st, y, m, d) ==
    LET key == <<"dayData_", y, m, d>> IN
    IF key \in DOMAIN st /\ st[key].text = "object" /\ "moodRating" \in DOMAIN st[key].obj
    THEN st[key].obj["moodRating"]
    ELSE 0

\* one point for each day 1..n of the month of `date`
ExpectedSeries(st, date) ==
    [d \in 1..DaysInMonth(date.y, date.m) |->
        [date |-> d, score |-> StoredScore(st, date.y, date.m, d)]]

\* every day key holds an object or the empty text and can be read
Readable(st) == \A key \in DayDataKeys(st) : st[key].text \in {"object", ""}

\* the day keys that hold a record with a set rating
RatedKeys(st) ==
    {key \in DayDataKeys(st) :
        /\ st[key].text = "object"
        /\ "moodRating" \in DOMAIN st[key].obj
        /\ st[key].obj["moodRating"] # 0}

\* the food entries of rated days, as <<key, index>>, whose name lower-cases to n
Eaten(st, n) ==
    {ki \in UNION {{<<key, i>> : i \in 1..Len(st[key].obj["foodEntries"])} : key \in RatedKeys(st)} :
        toLowerCase(st[ki[1]].obj["foodEntries"][ki[2]].name) = n}

RECURSIVE SumRatings(_, _)
SumRatings(st, kis) ==
    IF kis = {} THEN 0
    ELSE LET ki == CHOOSE x \in kis : TRUE
         IN  st[ki[1]].obj["moodRating"] + SumRatings(st, kis \ {ki})

FoodNames(st) ==
    UNION {{toLowerCase(st[key].obj["foodEntries"][i].name) :
                i \in 1..Len(st[key].obj["foodEntries"])} : key \in RatedKeys(st)}

C4_FoodStats ==
    lastCalc.status = "ok" =>
        /\ DOMAIN foodMoodData = FoodNames(store)
        /\ \A n \in DOMAIN foodMoodData :
              /\ foodMoodData[n].occurrences = Cardinality(Eaten(store, n))
              /\ foodMoodData[n].totalScore = SumRatings(store, Eaten(store, n))
              /\ foodMoodData[n].averageScore[1] * foodMoodData[n].occurrences
                    = foodMoodData[n].totalScore * foodMoodData[n].averageScore[2]

C4_Witness ==
    /\ store = PizzaStore
    /\ lastCalc.status = "ok"
    /\ foodMoodData =
          ("pizza" :> [totalScore |-> 12, occurrences |-> 2, averageScore |-> <<6, 1>>]) @@
          ("salad" :> [totalScore |-> 4, occurrences |-> 1, averageScore |-> <<4, 1>>])

\* C5: the displayed month is never later than the current calendar month,
\* and a 'next' request made while the displayed month is the current month
\* leaves selectedMonth as it is and starts no load.
C5_NoFutureMonth ==
    /\ [](MonthIndex(selectedMonth) <= MonthIndex(now))
    /\ [][(MonthNext /\ MonthIndex(selectedMonth) = MonthIndex(now))
            => UNCHANGED <<selectedMonth, loads, calcs, chartLoading>>]_vars

C5_Witness ==
    /\ MonthIndex(selectedMonth) = MonthIndex(now)
    /\ selectedMonth # StartDate
    /\ lastChart = [status |-> "ok", date |-> startOfMonth(now)]
    /\ loads = EmptyBag

\* the ratings of the readable, rated days among `days`, in order
SetRatings(st, days) ==
    LET rated == SelectSeq(days, LAMBDA day : StoredScore(st, day.y, day.m, day.d) # 0)
    IN  [i \in 1..Len(rated) |-> StoredScore(st, rated[i].y, rated[i].m, rated[i].d)]

\* C2: when no computation is in flight and the one that returned last did
\* not fail, the trend is absent whenever either average is absent, and a
\* current month without a rated day shows no average and no trend.
C2_TrendAbsent ==
    (calcs = EmptyBag /\ lastCalc.status = "ok") =>
        /\ (currentAverage = Null \/ previousAverage = Null) => trend = "null"
        /\ SetRatings(store, CurrentDays(lastCalc.today)) = <<>>
              => currentAverage = Null /\ trend = "null"

\* C6: once every load has returned, the series shown is that of the
\* selected month (over a store every key of which can be read).
C6_NoStaleSeries ==
    (/\ loads = EmptyBag
     /\ \A c \in BagToSet(calcs) : c.pc # "chart"
     /\ Readable(store))
        => dailyMoodData = ExpectedSeries(store, selectedMonth)

\* C7: a day whose text does not parse or whose read fails counts as a day
\* without record: once the computation has returned, the averages are
\* those of the other days, and the series of the month loaded last has
\* that day at 0.
C7_FaultIsNoRecord ==
    /\ (calcs = EmptyBag /\ lastCalc.status # "none") =>
          /\ currentAverage = Average(SetRatings(store, CurrentDays(lastCalc.today)))
          /\ previousAverage = Average(SetRatings(store, PreviousDays(lastCalc.today)))
    /\ (calcs = EmptyBag /\ loads = EmptyBag /\ lastChart.status # "none") =>
          dailyMoodData = ExpectedSeries(store, lastChart.date)

-----------------------------------------------------------------------------
(* Claims about the daily log.                                              *)

\* C1: when loadDayData(d) returns and saveDayData had stored a record under
\* d's key (nothing else writes that key), the record in memory after the
\* load equals the record last saved under d, in all five fields.
C1_RoundTrip ==
    [][\A date \in BagToSet(reads) :
          (loadDayDataReturns(date) /\ getStorageKey(date) \in DOMAIN saved)
              => Memory' = saved[getStorageKey(date)]]_vars

\* a load has read back a saved record that is not the default one: it has a
\* food entry or no rating
C1_Witness ==
    /\ lastLoad.status = "found"
    /\ lastLoad.saved
    /\ reads = EmptyBag
    /\ writes = <<>>
    /\ Memory = saved[getStorageKey(lastLoad.date)]
    /\ foodEntries # <<>> \/ moodRating = Null

\* what the readers of stats.tsx make of the one day `date`: no sample for a
\* monthly average, score 0 in the series, nothing for the food statistics
NoData(st, date) ==
    /\ MonthMoods(st, <<date>>) = [ok |-> TRUE, moods |-> <<>>]
    /\ ChartLoop(st, <<date>>).data = <<[date |-> date.d, score |-> 0]>>
    /\ FoodLoop(st, {DayKey(date)}, EmptyMap) = [ok |-> TRUE, map |-> EmptyMap]
    /\ LET data == getItem(st, DayKey(date)) IN data = Null \/ Rating(data[1]) = Null

\* C8: a day that was loaded as absent and then persisted without any user
\* edit is no data to every reader: unset mood, no sample, score 0, no food
\* statistics.
C8_DefaultIsNoData ==
    (lastLoad.status = "absent" /\ edits = 0 /\ reads = EmptyBag /\ writes = <<>>)
        => NoData(store, lastLoad.date)

\* C9: every record saveDayData has persisted has moodRating unset or an
\* integer in 1..10, also when the rating was read back from the store.
C9_RatingInRange ==
    \A key \in DOMAIN saved :
        saved[key].moodRating = Null \/ saved[key].moodRating[1] \in 1..10

\* C10: the food entries of the record are sorted ascending by time, after
\* any sequence of adds, edits and deletes.
C10_SortedByTime ==
    \A i \in 1..Len(foodEntries) - 1 : foodEntries[i].time <= foodEntries[i + 1].time

\* the ids of a sequence of food entries are pairwise different
UniqueIds(entries) ==
    \A i, j \in 1..Len(entries) : entries[i].id = entries[j].id => i = j

\* C11: no two food entries of the record in memory, or of a record saved,
\* have the same id, and a delete addressed to an id removes exactly one entry.
C11_UniqueIds ==
    /\ [](UniqueIds(foodEntries) /\ \A key \in DOMAIN saved : UniqueIds(saved[key].foodEntries))
    /\ [][handleDeleteFood => Len(foodEntries') = Len(foodEntries) - 1]_vars

\* two entries added in the session with the same name and time, saved
C11_Witness ==
    /\ Len(foodEntries) = 2
    /\ foodEntries[1].id > 0 /\ foodEntries[2].id > 0
    /\ foodEntries[1].name = foodEntries[2].name
    /\ foodEntries[1].time = foodEntries[2].time
    /\ writes = <<>>
    /\ saved[getStorageKey(selectedDate)].foodEntries = foodEntries

\* C13: a save of the record that was last saved under the same key leaves
\* the store as it is: saving twice is saving once.
C13_SaveIdempotent ==
    [][(/\ SetItemReturns
        /\ Head(writes).key \in DOMAIN saved
        /\ saved[Head(writes).key] = Head(writes).rec) => store' = store]_vars

\* a record with an entry has been saved a second time under the same key
C13_Witness ==
    /\ lastSave.status = "again"
    /\ writes = <<>>
    /\ foodEntries # <<>>
    /\ getStorageKey(selectedDate) \in DOMAIN saved
    /\ saved[getStorageKey(selectedDate)] = Memory
    /\ store[getStorageKey(selectedDate)] = JSONstringify(Memory)

\* C14: whichever storage call or JSON.parse throws, loadDayData,
\* saveDayData, calculateMoodAverages and loadChartDataForMonth end in their
\* own catch: none ends with an exception that was not caught.
C14_ErrorsCaught ==
    /\ lastLoad.status # "uncaught"
    /\ lastSave.status # "uncaught"
    /\ lastCalc.status # "uncaught"
    /\ lastChart.status # "uncaught"

\* all four operations have failed: today's text does not parse and the
\* setItem was rejected
C14_Witness ==
    /\ lastLoad.status = "failed"
    /\ lastSave.status = "failed"
    /\ lastCalc.status = "failed"
    /\ lastChart.status = "failed"

\* C15: a step changes no store entry but the one under the key of the save
\* that returns, a key made of 'dayData_' and a date; a rejected save changes
\* none; and a save of the record whose save was rejected stores it.
C15_SaveFrame ==
    /\ [](\A i \in 1..Len(writes) : IsDayKey(writes[i].key))
    /\ [][/\ \A key \in DOMAIN store \cup DOMAIN store' :
                (writes = <<>> \/ key # Head(writes).key)
                    => (key \in DOMAIN store /\ key \in DOMAIN store' /\ store'[key] = store[key])
          /\ SetItemFails => store' = store
          /\ (SetItemReturns /\ lastSave.status = "failed"
                 /\ lastSave.key = Head(writes).key /\ lastSave.text = Head(writes).text)
                => store'[Head(writes).key] = Head(writes).text]_vars

\* a save was rejected, the same record was saved again and is stored, and
\* the texts under the other keys are the ones the store began with
C15_Witness ==
    /\ lastSave.status = "retried"
    /\ writes = <<>>
    /\ store[getStorageKey(selectedDate)] = JSONstringify(Memory)
    /\ \A key \in DOMAIN OddStore \ {getStorageKey(selectedDate)} :
           key \in DOMAIN store /\ store[key] = OddStore[key]

-----------------------------------------------------------------------------
(* Further claims about the statistics screen.                              *)

\* what calculateMoodAverages(today) reports on a screen that has computed
\* nothing before, when no read fails
FreshReport(st, today) ==
    LET currentAvg == Average(SetRatings(st, CurrentDays(today)))
        previousAvg == Average(SetRatings(st, PreviousDays(today)))
    IN  [currentAverage |-> currentAvg, previousAverage |-> previousAvg,
         trend |-> NextTrend("null", currentAvg, previousAvg)]

\* C12: a computation that has completed reports what the first computation
\* of a new screen reports for the same store and the same reference date,
\* whatever was computed before it.
C12_NoStateBetweenCalls ==
    (calcs = EmptyBag /\ lastCalc.status = "ok")
        => [currentAverage |-> currentAverage, previousAverage |-> previousAverage,
            trend |-> trend] = FreshReport(store, lastCalc.today)

\* C16: no step of the statistics screen (computations, month loads, month
\* changes, refocus) adds, changes or removes a store entry.
C16_AnalyzersReadOnly == [][store' = store]_vars

\* a computation and a load of another month have completed on a store that
\* holds a text that does not parse under a key that is no day key
C16_Witness ==
    /\ store = MixedStore
    /\ lastCalc.status = "ok"
    /\ lastChart = [status |-> "ok", date |-> startOfMonth(subMonth(StartDate))]
    /\ calcs = EmptyBag
    /\ loads = EmptyBag

RatingsOfMonth(st, y, m, last) ==
    LET rated == SelectSeq([d \in 1..last |-> d], LAMBDA d : StoredScore(st, y, m, d) # 0)
    IN  [i \in 1..Len(rated) |-> StoredScore(st, y, m, rated[i])]

\* C18: the step of a computation that sets the averages sets the current
\* one to the mean of the ratings of the days of today's month up to today,
\* and the previous one to the mean of the ratings of all days of the month
\* before; days without a rating or with rating 0 are in neither.
C18_MonthRanges ==
    [][\A c \in BagToSet(calcs) :
          (c.pc = "previous"
             /\ calcs' = (calcs (-) SetToBag({c})) (+) SetToBag({[c EXCEPT !.pc = "keys"]}))
          => LET y == c.today.y
                 m == c.today.m
                 py == IF m = 1 THEN y - 1 ELSE y
                 pm == IF m = 1 THEN 12 ELSE m - 1
             IN  /\ currentAverage' = Average(RatingsOfMonth(store, y, m, c.today.d))
                 /\ previousAverage' =
                        Average(RatingsOfMonth(store, py, pm, DaysInMonth(py, pm)))]_vars

\* on 1 April, with a rating stored for 2 April: no current average, and the
\* previous one is the 9 of 31 March, the 0 of 30 March left out
C18_Witness ==
    /\ store = MixedStore
    /\ lastCalc = [status |-> "ok", today |-> addDay(StartDate)]
    /\ calcs = EmptyBag
    /\ currentAverage = Null
    /\ previousAverage = Some(<<9, 1>>)

-----------------------------------------------------------------------------
(* Persistence of edits.                                                    *)

\* no storage call of the daily log is in flight
Settled == reads = EmptyBag /\ writes = <<>>

\* the text under the key of the selected date is that of the record shown
Persisted == getItem(store, getStorageKey(selectedDate)) = Some(JSONstringify(Memory))

\* C19: whenever no storage call is in flight, the record stored under the
\* key of the selected date is the record in memory, whatever was edited; and
\* the storage calls returning, that is the case for ever from some point on.
C19_EditsPersisted == [](Settled => Persisted) /\ <>[](Settled /\ Persisted)

\* all edits made, one left a food entry, and everything is stored
C19_Witness ==
    /\ Settled
    /\ Persisted
    /\ edits = MaxEdits
    /\ foodEntries # <<>>
    /\ moodRating # DefaultRecord.moodRating

-----------------------------------------------------------------------------
(* Validation in the entry modal.                                           *)

\* the hour and minute fields hold a time of day
TimeOfDayTyped ==
    /\ parseInt(modal.hours) # Null
    /\ parseInt(modal.hours)[1] \in 0..23
    /\ parseInt(modal.minutes) # Null
    /\ parseInt(modal.minutes)[1] \in 0..59

\* the fields of the modal hold an entry that may be saved
ValidInput ==
    /\ modal.name \notin {"", " "}
    /\ modal.useCustomTime => TimeOfDayTyped

\* the digits of the text are a number above max
OutOfRange(text, max) ==
    /\ DigitsOnly(text) # <<>>
    /\ parseInt(DigitsOnly(text))[1] > max

\* the texts typed that are out of range
HoursOutOfRange == {text \in HourTexts : OutOfRange(text, 23)}
MinutesOutOfRange == {text \in MinuteTexts : OutOfRange(text, 59)}

\* C20: the Save button of the modal saves an entry of the typed name (the
\* entry edited being still in the list) and closes the modal only when the name is not blank and, with a custom
\* time, the hour is in 0..23 and the minute in 0..59; otherwise it sets an
\* error and leaves the modal open and the entries, the entry being edited
\* and the storage calls as they were.  A number out of range typed into
\* the hour or minute field leaves the field as it was.
C20_RejectsInvalid ==
    /\ [][handleSave =>
            IF ValidInput
            THEN /\ ~modalVisible'
                 /\ edits' = edits + 1
                 /\ Len(writes') = Len(writes) + 1
                 /\ (editingEntry = Null \/ \E i \in 1..Len(foodEntries) :
                                                foodEntries[i].id = editingEntry[1].id)
                    => \E i \in 1..Len(foodEntries') : foodEntries'[i].name = modal.name
            ELSE /\ modalVisible'
                 /\ modal'.error # ""
                 /\ modal' = [modal EXCEPT !.error = modal'.error]
                 /\ UNCHANGED <<foodEntries, editingEntry, writes, reads, edits>>]_vars
    /\ [][\A text \in HoursOutOfRange : handleTimeChange(text, TRUE) => modal' = modal]_vars
    /\ [][\A text \in MinutesOutOfRange : handleTimeChange(text, FALSE) => modal' = modal]_vars
    /\ [](modalVisible =>
              /\ modal.hours = <<>> \/ parseInt(modal.hours)[1] \in 0..23
              /\ modal.minutes = <<>> \/ parseInt(modal.minutes)[1] \in 0..59)

\* Save was pressed with a name and an empty hour field: the modal is still
\* open with the error, and nothing was edited
C20_Witness ==
    /\ modalVisible
    /\ modal.name = "Pizza"
    /\ modal.useCustomTime
    /\ modal.hours = <<>>
    /\ modal.error = "Please enter valid time"
    /\ edits = 0

-----------------------------------------------------------------------------
(* What the effects of the daily log store without an edit.                 *)

\* the food entries of the object stored under the key, none when the text
\* is not an object
StoredEntries(st, key) ==
    IF st[key].text = "object" THEN st[key].obj["foodEntries"] ELSE <<>>

\* every food entry stored under a day key has its time on that day
EntriesOfTheirDay(st) ==
    \A key \in DOMAIN st :
        \A i \in 1..Len(StoredEntries(st, key)) :
            StoredEntries(st, key)[i].time \div (24 * 60) = (key[2] * 12 + key[3]) * 31 + key[4]

\* C21: while the user has done nothing since the daily log opened, no step
\* changes the store; no step puts the default record in place of another
\* text a key holds; and the entries stored under a day key are of that day.
C21_StoreOnlyEdited ==
    /\ [][edits' = 0 => store' = store]_vars
    /\ [][\A key \in DOMAIN store :
              store'[key] = JSONstringify(DefaultRecord) => store[key] = store'[key]]_vars
    /\ [](EntriesOfTheirDay(store))

-----------------------------------------------------------------------------
(* The statistics a mood change asks for.                                   *)

\* the setItem call `w` has not returned
Pending(w) == \E i \in 1..Len(writes) : writes[i] = w

\* the calculateMoodAverages call c takes a step
Steps(c) == CopiesIn(c, calcs') < CopiesIn(c, calcs)

\* C22: when a computation started by the timer of a mood change takes a
\* step, and so reads the store, the setItem call that stores the changed
\* record has returned.
C22_StatsSeeNewRating ==
    [][\A c \in BagToSet(calcs) : ("after" \in DOMAIN c /\ Steps(c)) => ~Pending(c.after)]_vars

-----------------------------------------------------------------------------
(* The busy flags of the statistics screen.                                 *)

\* a loadChartDataForMonth call is in flight: one started by
\* handleMonthChange, or the one a calculateMoodAverages call awaits
ChartLoadInFlight ==
    \/ loads # EmptyBag
    \/ \E c \in BagToSet(calcs) : c.pc = "chart"

\* C23: chartLoading is true in every state in which a loadChartDataForMonth
\* call is in flight.
C23_BusyWhileLoading == ChartLoadInFlight => chartLoading


\* C24: a computation that has set loading goes on to clear it, and a chart
\* load that has set chartLoading goes on to clear it, whether the reads
\* succeed or throw, every storage call returning.
C24_BusyFlagsClear == (loading ~> ~loading) /\ (chartLoading ~> ~chartLoading)

\* a computation has ended in its catch, and both flags are clear
C24_Witness ==
    /\ lastCalc.status = "failed"
    /\ calcs = EmptyBag
    /\ loads = EmptyBag
    /\ ~loading
    /\ ~chartLoading

=============================================================================
